---- MODULE Spec2Model ----
(***************************************************************************)
(* A model of the ochre deployment engine: the component model (identity   *)
(* and content hashes), the apply and destroy planners, the sequential     *)
(* executor, Job.execute with its status markers, and the on-disk          *)
(* registry.  All components are instances of one user class               *)
(*                                                                         *)
(*     class Comp(Component):                                              *)
(*         breaks = ('brk', 'bsub')                                        *)
(*         brk: int; val: int; sub: Component | None;                      *)
(*         bsub: Component | None; cron: str | None                        *)
(*                                                                         *)
(* so a registry key "{component}:{identifier}" is modelled by the         *)
(* identifier alone.                                                       *)
(***************************************************************************)
EXTENDS Integers, Sequences, FiniteSets, TLC

VARIABLES
    registry,   \* the on-disk registry: identifier -> directory content
    crontab,    \* the scheduler's entries (crontab.txt), in file order
    pc,         \* "idle", or "exec" while a plan is being executed
    kind,       \* the running (or last) command: "none", "apply", "destroy"
    live,       \* the component definition handed to the running command
    cleanRun,   \* the clean flag of the running apply
    existing,   \* existing_components as loaded by the running apply
    regAtStart, \* the registry as it was when the running command began
    cronAtStart,\* the scheduler as it was when the running command began
    plan,       \* the jobs map built by the planner: insertion order and lists
    pos,        \* index of the next job in the executor's iteration
    log,        \* the jobs executed so far in this run, with their result
    outcome,    \* how the last command ended
    last,       \* a summary of the command that ran before this one
    runs,       \* number of commands started
    obj         \* one component object in memory: its fields and its caches

\* the state of the engine
engine == <<registry, crontab, pc, kind, live, cleanRun, existing, regAtStart,
            cronAtStart, plan, pos, log, outcome, last, runs>>

vars == <<registry, crontab, pc, kind, live, cleanRun, existing, regAtStart,
          cronAtStart, plan, pos, log, outcome, last, runs, obj>>

----------------------------------------------------------------------------
(* Bounds of the model *)

MaxRuns == 2

----------------------------------------------------------------------------
(* The universe of components and definitions *)

Keys == {"R", "P", "Q", "D", "D.x"}

None == "None"

\* identifiers that contain a '.'
Dotted == {"D.x"}

\* a field value written by a lifecycle hook (tests/test_apply.py: self.d = "created")
Created == 2

Node(brk, val, sub, bsub, cron) ==
    [in |-> TRUE, brk |-> brk, val |-> val, sub |-> sub, bsub |-> bsub, cron |-> cron]

NoNode == [in |-> FALSE, brk |-> 0, val |-> 0, sub |-> None, bsub |-> None, cron |-> None]

Empty == [k \in Keys |-> NoNode]

Leaf(brk, val, cron) == Node(brk, val, None, None, cron)

\* D alone
DefSingle(b, v, c) ==
    [root |-> "D", nodes |-> [Empty EXCEPT !["D"] = Leaf(b, v, c)]]

\* P holds D in the non-breaks field sub
DefChain(b, v) ==
    [root |-> "P",
     nodes |-> [Empty EXCEPT !["P"] = Node(0, 0, "D", None, None),
                             !["D"] = Leaf(b, v, None)]]

\* P holds D in the breaks field bsub
DefBreakChain(b) ==
    [root |-> "P",
     nodes |-> [Empty EXCEPT !["P"] = Node(0, 0, None, "D", None),
                             !["D"] = Leaf(b, 0, None)]]

\* P holds the same child in two fields
DefTwoSlots(d, b, v) ==
    [root |-> "P",
     nodes |-> [Empty EXCEPT !["P"] = Node(0, 0, d, d, None),
                             ![d] = Leaf(b, v, None)]]

\* D is a child of R and a grandchild of R through P; R's children are [D, P]
DefMultiDepth(v) ==
    [root |-> "R",
     nodes |-> [Empty EXCEPT !["R"] = Node(0, 0, "D", "P", None),
                             !["P"] = Node(0, 0, "D", None, None),
                             !["D"] = Leaf(0, v, None)]]

\* D is shared by the two parents P and Q
DefDiamond(b) ==
    [root |-> "R",
     nodes |-> [Empty EXCEPT !["R"] = Node(0, 0, "P", "Q", None),
                             !["P"] = Node(0, 0, "D", None, None),
                             !["Q"] = Node(0, 0, "D", None, None),
                             !["D"] = Leaf(b, 0, None)]]

Definitions ==
    {DefSingle(b, v, None) : b \in {0, 1}, v \in {0, 1}}
    \cup {DefSingle(0, 0, c) : c \in {"c1", "c2"}}
    \cup {DefChain(b, v) : b \in {0, 1}, v \in {0, 1}}
    \cup {DefBreakChain(b) : b \in {0, 1}}
    \cup {DefTwoSlots(d, 0, 0) : d \in {"D", "D.x"}}
    \cup {DefTwoSlots(d, 1, 0) : d \in {"D", "D.x"}}
    \cup {DefTwoSlots(d, 0, 1) : d \in {"D", "D.x"}}
    \cup {DefMultiDepth(v) : v \in {0, 1}}
    \cup {DefDiamond(b) : b \in {0, 1}}

\* the definitions that are also applied with clean=True
CleanDefinitions ==
    {DefSingle(b, v, None) : b \in {0, 1}, v \in {0, 1}}
    \cup {DefChain(0, 0), DefMultiDepth(0)}

\* the values of the clean flag a definition is applied with
CleanFlags(d) == IF d \in CleanDefinitions THEN BOOLEAN ELSE {FALSE}

----------------------------------------------------------------------------
(* Component model *)

\* Component.children: the structural children in field order
Children(nodes, k) ==
    (IF nodes[k].sub = None THEN <<>> ELSE <<nodes[k].sub>>)
    \o (IF nodes[k].bsub = None THEN <<>> ELSE <<nodes[k].bsub>>)

ChildSet(nodes, k) == {nodes[k].sub, nodes[k].bsub} \ {None}

\* the components of a tree: the root and all its structural descendants
RECURSIVE Reach(_, _)
Reach(nodes, k) ==
    {k} \cup UNION {Reach(nodes, c) : c \in ChildSet(nodes, k)}

\* hash_item on a primitive: sha256 is modelled as injective
HashItem(x) == <<x>>

\* Component.uuid of a constructed component: identity and the breaks fields
RECURSIVE Uuid(_, _)
\* a uuid that hashes the reference to a breaks child instead of its uuid
UuidOfReference(nodes, k) ==
    <<k, HashItem(nodes[k].brk), HashItem(nodes[k].bsub)>>

Uuid(nodes, k) ==
    <<k, HashItem(nodes[k].brk),
      IF nodes[k].bsub = None THEN HashItem(None) ELSE Uuid(nodes, nodes[k].bsub)>>

\* a hash that takes a child by the reference to it instead of its hash
HashOfReference(nodes, k) ==
    << <<HashItem(nodes[k].brk), HashItem(nodes[k].bsub)>>,
       <<HashItem(nodes[k].cron), HashItem(k), HashItem(nodes[k].sub),
         HashItem(nodes[k].val)>> >>

\* Component.hash: the breaks fields, then the other fields in sorted order
RECURSIVE Hash(_, _)
Hash(nodes, k) ==
    << <<HashItem(nodes[k].brk),
         IF nodes[k].bsub = None THEN HashItem(None) ELSE Hash(nodes, nodes[k].bsub)>>,
       <<HashItem(nodes[k].cron), HashItem(k),
         IF nodes[k].sub = None THEN HashItem(None) ELSE Hash(nodes, nodes[k].sub),
         HashItem(nodes[k].val)>> >>

\* Component.huuid
Huuid(nodes, k) == <<"Comp", k, Uuid(nodes, k)>>

----------------------------------------------------------------------------
(* One component object: fields, memoized hashes, assignment *)

\* the values assigned to the fields brk and val
FieldValues == {0, 1, 2}

\* the object is Comp('D', brk=b, val=v)
ObjNodes(b, v) == [Empty EXCEPT !["D"] = Leaf(b, v, None)]

\* _build_merkle_tree(breaks=False) restricted to the fields that vary
MerkleTree(b, v) == [brk |-> HashItem(b), val |-> HashItem(v)]

\* _build_merkle_tree(breaks=True)
MerkleTreeBreaks(b) == [brk |-> HashItem(b)]

NoOp == [op |-> "none", field |-> "none", differs |-> FALSE,
         hashBefore |-> <<>>, uuidBefore |-> <<>>]

\* no object; the caches _uuid, _hash, _merkle_tree and _merkle_tree_breaks
\* hold <<>> for None and <<x>> for the value x
NoObject == [made |-> "none", brk |-> 0, val |-> 0, uuidSet |-> <<>>,
             hashMemo |-> <<>>, tree |-> <<>>, treeBreaks |-> <<>>, last |-> NoOp]

\* the merkle_tree property: built on first use, then kept
TreeRead(o) == IF o.tree = <<>> THEN MerkleTree(o.brk, o.val) ELSE o.tree[1]

\* the merkle_tree_breaks property
TreeBreaksRead(o) == IF o.treeBreaks = <<>> THEN MerkleTreeBreaks(o.brk) ELSE o.treeBreaks[1]

\* the value the uuid property returns
UuidValue(o) ==
    IF o.uuidSet # <<>> THEN o.uuidSet[1]
    ELSE <<"D", TreeBreaksRead(o).brk, HashItem(None)>>

\* the value the hash property returns
HashValue(o) ==
    IF o.hashMemo # <<>> THEN o.hashMemo[1]
    ELSE << <<TreeRead(o).brk, HashItem(None)>>,
            <<HashItem(None), HashItem("D"), HashItem(None), TreeRead(o).val>> >>

\* reading uuid: a pinned _uuid is returned as is, otherwise
\* merkle_tree_breaks is built
AfterUuidRead(o) ==
    IF o.uuidSet # <<>> THEN o ELSE [o EXCEPT !.treeBreaks = <<TreeBreaksRead(o)>>]

\* reading hash: merkle_tree is built and the result is kept in _hash
AfterHashRead(o) ==
    IF o.hashMemo # <<>> THEN o
    ELSE [o EXCEPT !.tree = <<TreeRead(o)>>, !.hashMemo = <<HashValue(o)>>]

\* Component.decode(Comp('D', brk=b, val=v).encode()): from_dict constructs
\* the object and sets the metadata field uuid from the payload
DecodedObject(b, v) ==
    [NoObject EXCEPT !.made = "decoded", !.brk = b, !.val = v,
                     !.uuidSet = <<Uuid(ObjNodes(b, v), "D")>>]

\* Component.__setattr__ on a field after construction
AfterAssign(o, field, value) ==
    IF o[field] = value THEN o
    ELSE LET o1 == [o EXCEPT !.tree = <<TreeRead(o)>>]
             o2 == AfterUuidRead(o1)
             o3 == [o2 EXCEPT ![field] = value]
             o4 == [o3 EXCEPT !.treeBreaks = <<TreeBreaksRead(o3)>>]
         IN  [o4 EXCEPT !.tree = <<[o4.tree[1] EXCEPT ![field] = HashItem(value)]>>,
                        !.treeBreaks = IF field = "brk"
                                       THEN <<[o4.treeBreaks[1] EXCEPT !.brk = HashItem(value)]>>
                                       ELSE @]

\* c = Comp('D', brk=b, val=v)
Construct(b, v) ==
    /\ obj.made = "none"
    /\ obj' = [NoObject EXCEPT !.made = "constructed", !.brk = b, !.val = v]
    /\ UNCHANGED engine

\* c = Component.decode(payload)
Decode(b, v) ==
    /\ obj.made = "none"
    /\ obj' = DecodedObject(b, v)
    /\ UNCHANGED engine

\* c.uuid
ReadUuid ==
    /\ obj.made # "none"
    /\ obj' = [AfterUuidRead(obj) EXCEPT !.last = NoOp]
    /\ UNCHANGED engine

\* c.hash
ReadHash ==
    /\ obj.made # "none"
    /\ obj' = [AfterHashRead(obj) EXCEPT !.last = NoOp]
    /\ UNCHANGED engine

\* c.<field> = value; last keeps what uuid and hash returned before it
Assign(field, value) ==
    /\ obj.made # "none"
    /\ obj' = [AfterAssign(obj, field, value) EXCEPT
                  !.last = [op |-> "assign", field |-> field,
                            differs |-> obj[field] # value,
                            hashBefore |-> HashValue(obj),
                            uuidBefore |-> UuidValue(obj)]]
    /\ UNCHANGED engine

----------------------------------------------------------------------------
(* Registry *)

NoJson == [present |-> FALSE, brk |-> 0, val |-> 0, sub |-> None, bsub |-> None,
           cron |-> None, uuid |-> <<>>]

NoDir == [dir |-> FALSE, json |-> NoJson,
          in_progress |-> FALSE, complete |-> FALSE, error |-> FALSE]

\* Component.save (shallow): the fields, child references and the uuid
Encode(n, uuid) ==
    [present |-> TRUE, brk |-> n.brk, val |-> n.val, sub |-> n.sub, bsub |-> n.bsub,
     cron |-> n.cron, uuid |-> uuid]

\* the stored definitions, as a node map
Stored(reg) ==
    [k \in Keys |-> IF reg[k].json.present
                    THEN Node(reg[k].json.brk, reg[k].json.val, reg[k].json.sub,
                              reg[k].json.bsub, reg[k].json.cron)
                    ELSE NoNode]

\* Component.load succeeds: component.json exists and every reference "?K"
\* of it resolves from the registry
RECURSIVE LoadOK(_, _)
LoadOK(reg, k) ==
    /\ reg[k].json.present
    /\ \A c \in ChildSet(Stored(reg), k) : LoadOK(reg, c)

\* Component.status
Status(reg, k) ==
    IF reg[k].error THEN "error"
    ELSE IF reg[k].complete THEN "complete"
    ELSE IF reg[k].in_progress THEN "in_progress"
    ELSE "uninitialized"

----------------------------------------------------------------------------
(* Planner *)

Job(id, comp, method, deps, raises) ==
    [id |-> id, comp |-> comp, method |-> method, deps |-> deps, raises |-> raises]

\* the planner's working state: the jobs map (insertion order of its keys and
\* the job list of each key), processed_components, the next fresh job id,
\* and whether the last call returned the jobs map (TRUE) or {} (FALSE)
EmptyPlan ==
    [order |-> <<>>, jobs |-> [k \in Keys |-> <<>>], processed |-> {},
     nid |-> 1, ret |-> TRUE]

\* j__.rsplit('.')[0] of a jobs key "{component}/{identifier}/{uuid}"
RSplit0(h) == IF h[2] \in Dotted THEN <<"Comp", "prefix", h[2]>> ELSE h

\* jobs[huuid].append(job) on the defaultdict
Append1(st, k, method, deps, raises) ==
    [st EXCEPT !.order = IF st.jobs[k] = <<>> THEN Append(@, k) ELSE @,
               !.jobs[k] = Append(@, Job(st.nid, k, method, deps, raises)),
               !.nid = @ + 1]

\* the job ids of a list of jobs
RECURSIVE JobIds(_)
JobIds(js) == IF js = <<>> THEN <<>> ELSE <<Head(js).id>> \o JobIds(Tail(js))

\* dependencies that take the last job of each child only
RECURSIVE ChildJobIdsLastOnly(_, _)
ChildJobIdsLastOnly(kids, jobs) ==
    IF kids = <<>> THEN <<>>
    ELSE (IF jobs[Head(kids)] = <<>> THEN <<>>
          ELSE <<jobs[Head(kids)][Len(jobs[Head(kids)])].id>>)
         \o ChildJobIdsLastOnly(Tail(kids), jobs)

\* dependencies: for c in object.children: for j in jobs.get(c.huuid, [])
RECURSIVE ChildJobIds(_, _)
ChildJobIds(kids, jobs) ==
    IF kids = <<>> THEN <<>>
    ELSE JobIds(jobs[Head(kids)]) \o ChildJobIds(Tail(kids), jobs)

\* the prior component of a key: its uuid as stored, its hash as recomputed
\* from the stored fields
PriorUuid(ex, k) == ex[k].uuid
PriorHash(ex, k) ==
    Hash([j \in Keys |-> IF ex[j].present
                         THEN Node(ex[j].brk, ex[j].val, ex[j].sub, ex[j].bsub, ex[j].cron)
                         ELSE NoNode], k)

\* the value of the expression object.status in _apply: Component.status is a
\* method, not a property, so the expression is the bound method itself
ObjectStatus(k) == "<bound method Component.status>"

\* the verdict of _apply on a node
ApplyStatus(nodes, ex, k) ==
    IF ~ex[k].present THEN "new"
    ELSE IF ObjectStatus(k) = "error" THEN "new"
    ELSE IF PriorHash(ex, k) = Hash(nodes, k) THEN "same"
    ELSE IF PriorUuid(ex, k) = Uuid(nodes, k) THEN "update"
    ELSE "breaking"

\* a planner that appends the create of a breaking node before its delete
EmitJobsCreateFirst(st, k, status, deps, clean) ==
    IF status = "new" THEN
        LET st1 == IF clean THEN Append1(st, k, "delete", deps, FALSE) ELSE st
        IN  Append1(st1, k, "create", deps, TRUE)
    ELSE IF status = "breaking" THEN
        LET st1 == Append1(st, k, "create", <<st.nid + 1>>, TRUE)
        IN  Append1(st1, k, "delete", deps, TRUE)
    ELSE Append1(st, k, "update", deps, TRUE)

\* the jobs _apply appends for a node, given its verdict
EmitJobs(st, k, status, deps, clean) ==
    IF status = "new" THEN
        LET st1 == IF clean THEN Append1(st, k, "delete", deps, FALSE) ELSE st
        IN  Append1(st1, k, "create", deps, TRUE)
    ELSE IF status = "breaking" THEN
        LET st1 == Append1(st, k, "delete", deps, TRUE)
        IN  Append1(st1, k, "create", <<st1.jobs[k][1].id>>, TRUE)
    ELSE Append1(st, k, "update", deps, TRUE)

\* wrapper(): processed_components |= {j__.rsplit('.')[0] for j__ in j_}
MarkProcessed(nodes, st) ==
    IF st.ret
    THEN [st EXCEPT !.processed =
              @ \cup {RSplit0(Huuid(nodes, st.order[i])) : i \in 1..Len(st.order)}]
    ELSE st

RECURSIVE ApplyNode(_, _, _, _, _), ApplyChildren(_, _, _, _, _)
\* a planner that emits the jobs of a node before it visits the children
ApplyNodePreOrder(nodes, ex, clean, k, st) ==
    IF Huuid(nodes, k) \in st.processed THEN [st EXCEPT !.ret = FALSE]
    ELSE
        LET status == ApplyStatus(nodes, ex, k)
            st0 == IF status = "same" THEN st
                   ELSE EmitJobs(st, k, status,
                                 ChildJobIds(Children(nodes, k), st.jobs), clean)
        IN  [ApplyChildren(nodes, ex, clean, Children(nodes, k), st0) EXCEPT !.ret = TRUE]

\* _apply
ApplyNode(nodes, ex, clean, k, st) ==
    IF Huuid(nodes, k) \in st.processed THEN [st EXCEPT !.ret = FALSE]
    ELSE
        LET status == ApplyStatus(nodes, ex, k)
            st1 == ApplyChildren(nodes, ex, clean, Children(nodes, k), st)
        IN  IF status = "same" THEN [st1 EXCEPT !.ret = TRUE]
            ELSE [EmitJobs(st1, k, status, ChildJobIds(Children(nodes, k), st1.jobs), clean)
                    EXCEPT !.ret = TRUE]

\* list(map(wrapper, object.children)) in _apply
ApplyChildren(nodes, ex, clean, kids, st) ==
    IF kids = <<>> THEN st
    ELSE ApplyChildren(nodes, ex, clean, Tail(kids),
                       MarkProcessed(nodes, ApplyNode(nodes, ex, clean, Head(kids), st)))

RECURSIVE DestroyNode(_, _, _, _), DestroyChildren(_, _, _, _)
\* _destroy; parent is the parent's job id, or 0 for None
DestroyNode(nodes, k, parent, st) ==
    IF Huuid(nodes, k) \in st.processed THEN [st EXCEPT !.ret = FALSE]
    ELSE
        LET st1 == Append1(st, k, "delete", IF parent = 0 THEN <<>> ELSE <<parent>>, FALSE)
        IN  [DestroyChildren(nodes, k, Children(nodes, k), st1) EXCEPT !.ret = TRUE]

\* list(map(wrapper, object.children)) in _destroy
DestroyChildren(nodes, k, kids, st) ==
    IF kids = <<>> THEN st
    ELSE DestroyChildren(nodes, k, Tail(kids),
            MarkProcessed(nodes,
                DestroyNode(nodes, Head(kids), st.jobs[k][Len(st.jobs[k])].id, st)))

\* Executor.execute: for component in jobs: for job in jobs[component]
RECURSIVE Flatten(_, _)
Flatten(order, jobs) ==
    IF order = <<>> THEN <<>> ELSE jobs[Head(order)] \o Flatten(Tail(order), jobs)

Flat(p) == Flatten(p.order, p.jobs)

\* existing_components as built by apply(): the prior root and its deep children
ExistingOf(reg, root) ==
    IF reg[root].json.present
    THEN [k \in Keys |-> IF k \in Reach(Stored(reg), root) THEN reg[k].json ELSE NoJson]
    ELSE [k \in Keys |-> NoJson]

----------------------------------------------------------------------------
(* Job.execute *)

\* what a lifecycle hook may do: return, assign a field and return, or raise.
\* Only D's create and update hooks assign a field (as MyComponent.create of
\* tests/test_apply.py does); a delete job never saves the component.
HookOutcomes(job) ==
    IF job.comp = "D" /\ job.method \in {"create", "update"}
    THEN {"ok", "mutate", "raise"} ELSE {"ok", "raise"}

\* Component.decode(self.data): a child resolves from the payload's _builds; a
\* reference inside a build is decoded with an empty _builds, hence loaded
\* from the registry
DecodeOK(nodes, k, reg) ==
    \A c \in ChildSet(nodes, k) : \A g \in ChildSet(nodes, c) : LoadOK(reg, g)

\* the references "?K" that sit inside an entry of the payload's _builds:
\* Document.decode looks them up with an empty _builds, so in the registry
RegistryRefs(nodes, k) == UNION {ChildSet(nodes, c) : c \in ChildSet(nodes, k)}

\* a component tree as an object graph: the fields of the node, its uuid, and
\* the trees held in sub and bsub (<<>> for None); uuids gives the uuid of
\* each node
RECURSIVE TreeOf(_, _, _)
TreeOf(nodes, uuids, k) ==
    [id |-> k, brk |-> nodes[k].brk, val |-> nodes[k].val, cron |-> nodes[k].cron,
     uuid |-> uuids[k],
     sub |-> IF nodes[k].sub = None THEN <<>>
             ELSE <<TreeOf(nodes, uuids, nodes[k].sub)>>,
     bsub |-> IF nodes[k].bsub = None THEN <<>>
              ELSE <<TreeOf(nodes, uuids, nodes[k].bsub)>>]

\* the component a user constructed
LiveTree(nodes, k) == TreeOf(nodes, [j \in Keys |-> Uuid(nodes, j)], k)

\* Component.load: the fields and the uuid as stored, the children loaded in turn
LoadTree(reg, k) == TreeOf(Stored(reg), [j \in Keys |-> reg[j].json.uuid], k)

\* Component.decode(component.encode()): the root and its children come from
\* the payload, what a child refers to comes from the registry
DecodeTree(nodes, k, reg) ==
    LET Build(c) ==
            [id |-> c, brk |-> nodes[c].brk, val |-> nodes[c].val,
             cron |-> nodes[c].cron, uuid |-> Uuid(nodes, c),
             sub |-> IF nodes[c].sub = None THEN <<>>
                     ELSE <<LoadTree(reg, nodes[c].sub)>>,
             bsub |-> IF nodes[c].bsub = None THEN <<>>
                      ELSE <<LoadTree(reg, nodes[c].bsub)>>]
    IN  [id |-> k, brk |-> nodes[k].brk, val |-> nodes[k].val,
         cron |-> nodes[k].cron, uuid |-> Uuid(nodes, k),
         sub |-> IF nodes[k].sub = None THEN <<>> ELSE <<Build(nodes[k].sub)>>,
         bsub |-> IF nodes[k].bsub = None THEN <<>> ELSE <<Build(nodes[k].bsub)>>]

\* what Component.decode(self.data) did in a job: whether it was reached,
\* whether it returned, the component it returned, and the references it
\* looked up in the registry
Decoding(reg, nodes, k) ==
    LET tried == reg[k].json.present => LoadOK(reg, k)
        ok == tried /\ DecodeOK(nodes, k, reg)
    IN  [tried |-> tried,
         ok |-> ok,
         tree |-> IF ok THEN <<DecodeTree(nodes, k, reg)>> ELSE <<>>,
         loaded |-> IF tried THEN RegistryRefs(nodes, k) ELSE {}]

\* previous_version is set: component.json existed and was loaded
PrevLoaded(reg, k) == reg[k].json.present /\ LoadOK(reg, k)

\* the lifecycle hook of the job is reached
HookInvoked(reg, nodes, job) ==
    /\ reg[job.comp].json.present => LoadOK(reg, job.comp)
    /\ DecodeOK(nodes, job.comp, reg)

\* the job ends in the except branch
JobFails(reg, nodes, job, hook) ==
    ~HookInvoked(reg, nodes, job) \/ hook = "raise"

\* the component the job saves: the decoded data after the hook ran
Hooked(n, hook) == IF hook = "mutate" THEN [n EXCEPT !.val = Created] ELSE n

\* a job that never writes component.json
JobSuccessNoSave(started, reg, nodes, job, hook) ==
    LET marked == [started EXCEPT !.complete = TRUE, !.in_progress = FALSE]
    IN  IF job.method \in {"create", "update"}
        THEN marked
        ELSE IF PrevLoaded(reg, job.comp) THEN NoDir ELSE marked

\* a job that leaves the in_progress marker behind
JobSuccessKeepsInProgress(started, reg, nodes, job, hook) ==
    LET marked == [started EXCEPT !.complete = TRUE]
    IN  IF job.method \in {"create", "update"}
        THEN [marked EXCEPT !.json = Encode(Hooked(nodes[job.comp], hook),
                                            Uuid(nodes, job.comp))]
        ELSE IF PrevLoaded(reg, job.comp) THEN NoDir ELSE marked

\* the success path after the hook returned
JobSuccess(started, reg, nodes, job, hook) ==
    LET marked == [started EXCEPT !.complete = TRUE, !.in_progress = FALSE]
    IN  IF job.method \in {"create", "update"}
        THEN [marked EXCEPT !.json = Encode(Hooked(nodes[job.comp], hook),
                                            Uuid(nodes, job.comp))]
        ELSE IF PrevLoaded(reg, job.comp) THEN NoDir ELSE marked

\* an except branch that restores the previous version and writes no marker
JobFailureNoMarker(started, reg, nodes, job) ==
    [started EXCEPT !.json = IF job.raises /\ PrevLoaded(reg, job.comp)
                             THEN reg[job.comp].json ELSE @]

\* the except branch: the error marker, and previous_version.save() when
\* the job raises; the file it rewrites is the one that was loaded
JobFailure(started, reg, nodes, job) ==
    [started EXCEPT !.error = TRUE,
                    !.json = IF job.raises /\ PrevLoaded(reg, job.comp)
                             THEN reg[job.comp].json ELSE @]

\* a job that re-raises whatever its raises flag says
ReraisedAlways(job, failed) == failed

\* the exception leaves Job.execute and ends Executor.execute: if self.raises
Reraised(job, failed) == failed /\ job.raises

\* the directory of the job's component after Job.execute
JobResult(reg, nodes, job, hook) ==
    LET started == [reg[job.comp] EXCEPT !.dir = TRUE, !.in_progress = TRUE]
    IN  IF JobFails(reg, nodes, job, hook)
        THEN JobFailure(started, reg, nodes, job)
        ELSE JobSuccess(started, reg, nodes, job, hook)

----------------------------------------------------------------------------
(* Scheduler adapter *)

\* Executor.schedule: cron.new(...) appends an entry tagged with the component
Schedule(tab, k, cron) == Append(tab, [tag |-> k, cron |-> cron])

\* a cancel that removes the first entry with the tag only
RECURSIVE CancelScheduleFirstOnly(_, _)
CancelScheduleFirstOnly(tab, k) ==
    IF tab = <<>> THEN <<>>
    ELSE IF Head(tab).tag = k THEN Tail(tab)
    ELSE <<Head(tab)>> \o CancelScheduleFirstOnly(Tail(tab), k)

\* Executor.cancel_schedule: cron.remove_all(comment=tag)
CancelSchedule(tab, k) == SelectSeq(tab, LAMBDA e : e.tag # k)

----------------------------------------------------------------------------
(* Commands *)

NoExisting == [k \in Keys |-> NoJson]
NoPlan == [order |-> <<>>, jobs |-> [k \in Keys |-> <<>>]]

NoCommand == [kind |-> "none", live |-> DefSingle(0, 0, None), outcome |-> "none",
              failures |-> FALSE, mutated |-> FALSE]

Init ==
    /\ registry = [k \in Keys |-> NoDir]
    /\ crontab = <<>>
    /\ pc = "idle"
    /\ kind = "none"
    /\ live = DefSingle(0, 0, None)
    /\ cleanRun = FALSE
    /\ existing = NoExisting
    /\ regAtStart = [k \in Keys |-> NoDir]
    /\ cronAtStart = <<>>
    /\ plan = NoPlan
    /\ pos = 1
    /\ log = <<>>
    /\ outcome = "none"
    /\ last = NoCommand
    /\ runs = 0
    /\ obj = NoObject

Begin(cmd, d, clean) ==
    /\ pc = "idle"
    /\ runs < MaxRuns
    /\ runs' = runs + 1
    /\ kind' = cmd
    /\ live' = d
    /\ cleanRun' = clean
    /\ regAtStart' = registry
    /\ cronAtStart' = crontab
    /\ log' = <<>>
    /\ pos' = 1
    /\ last' = [kind |-> kind, live |-> live, outcome |-> outcome,
                failures |-> \E i \in 1..Len(log) : log[i].failed,
                mutated |-> \E i \in 1..Len(log) : log[i].hook = "mutate"]
    /\ UNCHANGED obj

\* an apply that also plans a delete for a component of the prior tree that
\* the live tree no longer holds
ApplyBeginDeletesOrphan(d, clean, approve) ==
    /\ Begin("apply", d, clean)
    /\ UNCHANGED crontab
    /\ IF registry[d.root].json.present /\ ~LoadOK(registry, d.root)
       THEN /\ existing' = NoExisting
            /\ plan' = NoPlan
            /\ outcome' = "crashed"
            /\ UNCHANGED <<registry, pc>>
       ELSE LET ex == ExistingOf(registry, d.root)
                p0 == ApplyNode(d.nodes, ex, clean, d.root, EmptyPlan)
                gone == {k \in Keys : ex[k].present} \ Reach(d.nodes, d.root)
                p == IF gone = {} THEN p0
                     ELSE Append1(p0, CHOOSE k \in gone : TRUE, "delete", <<>>, FALSE)
            IN  /\ existing' = ex
                /\ plan' = [order |-> p.order, jobs |-> p.jobs]
                /\ IF p.order = <<>>
                   THEN outcome' = "noop" /\ UNCHANGED <<registry, pc>>
                   ELSE IF ~approve
                   THEN outcome' = "declined" /\ UNCHANGED <<registry, pc>>
                   ELSE /\ registry' =
                             [registry EXCEPT ![d.root].dir = TRUE,
                                  ![d.root].json = Encode(d.nodes[d.root],
                                                          Uuid(d.nodes, d.root))]
                        /\ pc' = "exec"
                        /\ outcome' = "running"

\* apply() up to the start of plan.apply(): load the prior state, plan,
\* confirm, save the root
ApplyBegin(d, clean, approve) ==
    /\ Begin("apply", d, clean)
    /\ UNCHANGED crontab
    /\ IF registry[d.root].json.present /\ ~LoadOK(registry, d.root)
       THEN \* Component.load raises NotFound, which apply() does not catch
            /\ existing' = NoExisting
            /\ plan' = NoPlan
            /\ outcome' = "crashed"
            /\ UNCHANGED <<registry, pc>>
       ELSE LET ex == ExistingOf(registry, d.root)
                p == ApplyNode(d.nodes, ex, clean, d.root, EmptyPlan)
            IN  /\ existing' = ex
                /\ plan' = [order |-> p.order, jobs |-> p.jobs]
                /\ IF p.order = <<>>
                   THEN outcome' = "noop" /\ UNCHANGED <<registry, pc>>
                   ELSE IF ~approve
                   THEN outcome' = "declined" /\ UNCHANGED <<registry, pc>>
                   ELSE /\ registry' =
                             [registry EXCEPT ![d.root].dir = TRUE,
                                  ![d.root].json = Encode(d.nodes[d.root],
                                                          Uuid(d.nodes, d.root))]
                        /\ pc' = "exec"
                        /\ outcome' = "running"

\* Component.load(component, identifier): the tree that component.json of k
\* and the records it references hold
Loaded(reg, k) ==
    [root |-> k,
     nodes |-> [j \in Keys |-> IF LoadOK(reg, k) /\ j \in Reach(Stored(reg), k)
                               THEN Stored(reg)[j] ELSE NoNode]]

\* a reapply that schedules the loaded component again when it has a cron
\* expression
ReapplyBeginReschedules(k) ==
    /\ Begin("reapply", Loaded(registry, k), FALSE)
    /\ existing' = IF LoadOK(registry, k) THEN ExistingOf(registry, k) ELSE NoExisting
    /\ plan' = NoPlan
    /\ outcome' = IF LoadOK(registry, k) THEN "noop" ELSE "crashed"
    /\ crontab' = IF LoadOK(registry, k) /\ registry[k].json.cron # None
                  THEN Schedule(crontab, k, registry[k].json.cron) ELSE crontab
    /\ UNCHANGED <<registry, pc>>

\* a reapply that diffs the loaded tree against an empty prior state
ReapplyBeginDiffsAgainstNothing(k) ==
    /\ Begin("reapply", Loaded(registry, k), FALSE)
    /\ UNCHANGED crontab
    /\ existing' = NoExisting
    /\ IF ~LoadOK(registry, k)
       THEN plan' = NoPlan /\ outcome' = "crashed" /\ UNCHANGED <<registry, pc>>
       ELSE LET d == Loaded(registry, k)
                p == ApplyNode(d.nodes, NoExisting, FALSE, k, EmptyPlan)
            IN  /\ plan' = [order |-> p.order, jobs |-> p.jobs]
                /\ registry' = [registry EXCEPT ![k].json =
                                    Encode(d.nodes[k], registry[k].json.uuid)]
                /\ pc' = "exec"
                /\ outcome' = "running"

\* the reapply command: load the component, then apply(component,
\* force=True, schedule=False) up to the start of plan.apply()
ReapplyBegin(k) ==
    /\ Begin("reapply", Loaded(registry, k), FALSE)
    /\ UNCHANGED crontab
    /\ IF ~LoadOK(registry, k)
       THEN \* Component.load raises FileNotFoundError or NotFound
            /\ existing' = NoExisting
            /\ plan' = NoPlan
            /\ outcome' = "crashed"
            /\ UNCHANGED <<registry, pc>>
       ELSE LET d == Loaded(registry, k)
                ex == ExistingOf(registry, k)
                p == ApplyNode(d.nodes, ex, FALSE, k, EmptyPlan)
            IN  /\ existing' = ex
                /\ plan' = [order |-> p.order, jobs |-> p.jobs]
                /\ IF p.order = <<>>
                   THEN outcome' = "noop" /\ UNCHANGED <<registry, pc>>
                   ELSE \* the loaded component keeps the uuid it was stored with
                        /\ registry' =
                             [registry EXCEPT ![k].json =
                                  Encode(d.nodes[k], registry[k].json.uuid)]
                        /\ pc' = "exec"
                        /\ outcome' = "running"

\* destroy() that cancels the schedule before it asks for confirmation
DestroyBeginCancelsFirst(d, approve) ==
    /\ Begin("destroy", d, FALSE)
    /\ existing' = NoExisting
    /\ UNCHANGED registry
    /\ LET p == DestroyNode(d.nodes, d.root, 0, EmptyPlan)
       IN  plan' = [order |-> p.order, jobs |-> p.jobs]
    /\ crontab' = IF d.nodes[d.root].cron # None
                  THEN CancelSchedule(crontab, d.root) ELSE crontab
    /\ IF ~approve
       THEN outcome' = "declined" /\ UNCHANGED pc
       ELSE pc' = "exec" /\ outcome' = "running"

\* destroy() that leaves the scheduler to the end of the run
DestroyBeginKeepsSchedule(d, approve) ==
    /\ Begin("destroy", d, FALSE)
    /\ existing' = NoExisting
    /\ UNCHANGED <<registry, crontab>>
    /\ LET p == DestroyNode(d.nodes, d.root, 0, EmptyPlan)
       IN  plan' = [order |-> p.order, jobs |-> p.jobs]
    /\ IF ~approve
       THEN outcome' = "declined" /\ UNCHANGED pc
       ELSE pc' = "exec" /\ outcome' = "running"

\* destroy() up to the start of plan.apply(): plan, confirm, cancel the schedule
DestroyBegin(d, approve) ==
    /\ Begin("destroy", d, FALSE)
    /\ existing' = NoExisting
    /\ UNCHANGED registry
    /\ LET p == DestroyNode(d.nodes, d.root, 0, EmptyPlan)
       IN  plan' = [order |-> p.order, jobs |-> p.jobs]
    /\ IF ~approve
       THEN outcome' = "declined" /\ UNCHANGED <<crontab, pc>>
       ELSE /\ crontab' = IF d.nodes[d.root].cron # None
                          THEN CancelSchedule(crontab, d.root) ELSE crontab
            /\ pc' = "exec"
            /\ outcome' = "running"

\* one iteration of Executor.execute: Job.execute of the next job
ExecJob(hook) ==
    /\ pc = "exec"
    /\ pos <= Len(Flat(plan))
    /\ hook \in HookOutcomes(Flat(plan)[pos])
    /\ LET job == Flat(plan)[pos]
           failed == JobFails(registry, live.nodes, job, hook)
       IN  /\ registry' = [registry EXCEPT
                              ![job.comp] = JobResult(registry, live.nodes, job, hook)]
           /\ log' = Append(log, [job |-> job,
                                  hook |-> IF HookInvoked(registry, live.nodes, job)
                                           THEN hook ELSE "none",
                                  errorBefore |-> registry[job.comp].error,
                                  decoded |-> Decoding(registry, live.nodes, job.comp),
                                  failed |-> failed])
           /\ IF Reraised(job, failed)
              THEN pc' = "idle" /\ outcome' = "aborted" /\ UNCHANGED pos
              ELSE pos' = pos + 1 /\ UNCHANGED <<pc, outcome>>
    /\ UNCHANGED <<crontab, kind, live, cleanRun, existing, regAtStart, cronAtStart,
                   plan, last, runs, obj>>

\* apply() that schedules a root with a cron expression and otherwise leaves
\* the scheduler alone
ApplyFinishNeverCancels ==
    /\ pc = "exec"
    /\ kind = "apply"
    /\ pos > Len(Flat(plan))
    /\ crontab' = IF live.nodes[live.root].cron # None
                  THEN Schedule(crontab, live.root, live.nodes[live.root].cron)
                  ELSE crontab
    /\ pc' = "idle"
    /\ outcome' = "done"
    /\ UNCHANGED <<registry, kind, live, cleanRun, existing, regAtStart, cronAtStart,
                   plan, pos, log, last, runs, obj>>

\* apply() after plan.apply() returned: schedule or cancel, unless the
\* caller is reapply, which passes schedule=False
ApplyFinish ==
    /\ pc = "exec"
    /\ kind \in {"apply", "reapply"}
    /\ pos > Len(Flat(plan))
    /\ crontab' = IF kind = "reapply" THEN crontab
                  ELSE IF live.nodes[live.root].cron # None
                  THEN Schedule(crontab, live.root, live.nodes[live.root].cron)
                  ELSE IF existing[live.root].present /\ existing[live.root].cron # None
                  THEN CancelSchedule(crontab, live.root)
                  ELSE crontab
    /\ pc' = "idle"
    /\ outcome' = "done"
    /\ UNCHANGED <<registry, kind, live, cleanRun, existing, regAtStart, cronAtStart,
                   plan, pos, log, last, runs, obj>>

\* destroy() after plan.apply() returned: shutil.rmtree of the root directory
DestroyFinish ==
    /\ pc = "exec"
    /\ kind = "destroy"
    /\ pos > Len(Flat(plan))
    /\ registry' = [registry EXCEPT ![live.root] = NoDir]
    /\ pc' = "idle"
    /\ outcome' = "done"
    /\ UNCHANGED <<crontab, kind, live, cleanRun, existing, regAtStart, cronAtStart,
                   plan, pos, log, last, runs, obj>>

Next ==
    \/ \E d \in Definitions, approve \in BOOLEAN :
           \E clean \in CleanFlags(d) : ApplyBegin(d, clean, approve)
    \/ \E k \in Keys : ReapplyBegin(k)
    \/ \E d \in Definitions, approve \in BOOLEAN : DestroyBegin(d, approve)
    \/ \E hook \in {"ok", "mutate", "raise"} : ExecJob(hook)
    \/ ApplyFinish
    \/ DestroyFinish

Spec == Init /\ [][Next]_vars

\* a program that constructs or decodes one component, then reads and assigns
NextObject ==
    \/ \E b \in FieldValues, v \in FieldValues : Construct(b, v)
    \/ \E b \in FieldValues, v \in FieldValues : Decode(b, v)
    \/ ReadUuid
    \/ ReadHash
    \/ \E field \in {"brk", "val"}, value \in FieldValues : Assign(field, value)

SpecObject == Init /\ [][NextObject]_vars

----------------------------------------------------------------------------
(* Properties *)

\* the plan in the order in which the executor runs it
Run == Flat(plan)

\* the methods of the jobs emitted for a component
Methods(k) == [i \in 1..Len(plan.jobs[k]) |-> plan.jobs[k][i].method]

\* the components of the definition in hand
LiveKeys == Reach(live.nodes, live.root)

\* an apply that got as far as a plan
Planned == kind = "apply" /\ outcome # "crashed"

C2_ChildrenBeforeParent ==
    kind = "apply" =>
        /\ \A i, j \in 1..Len(Run) :
               Run[j].comp \in ChildSet(live.nodes, Run[i].comp) => j < i
        /\ \A i \in 1..Len(log) : log[i].job = Run[i]

\* the diamond applied to the end: D is shared by P and Q
C2_Witness ==
    /\ kind = "apply"
    /\ live \in {DefDiamond(0), DefDiamond(1)}
    /\ outcome = "done"
    /\ Len(log) >= 4

\* C3: in every destroy plan the delete of a parent runs before the delete of
\* each of its structural children.
C3_ParentDeletedFirst ==
    kind = "destroy" =>
        \A i, j \in 1..Len(Run) :
            Run[j].comp \in ChildSet(live.nodes, Run[i].comp) => i < j

\* the previous command was a fully successful apply of the same definition
\* whose hooks assigned no field
Reapplied ==
    /\ kind = "apply"
    /\ last.kind = "apply"
    /\ last.outcome = "done"
    /\ ~last.failures
    /\ ~last.mutated
    /\ last.live = live

\* C4: an apply of the definition that was just applied with success emits no
\* job and changes neither the registry nor the scheduler.
C4_ReapplyIsNoop ==
    Reapplied =>
        /\ outcome = "noop"
        /\ Run = <<>>
        /\ log = <<>>
        /\ registry = regAtStart
        /\ crontab = cronAtStart

\* a re-apply of a tree with children
C4_Witness ==
    /\ Reapplied
    /\ live.root = "R"
    /\ outcome = "noop"

\* the stored component of a key and all below it equal the live ones, field
\* by field
RECURSIVE SameContent(_, _, _)
SameContent(ex, nodes, k) ==
    /\ ex[k].present
    /\ ex[k].brk = nodes[k].brk
    /\ ex[k].val = nodes[k].val
    /\ ex[k].cron = nodes[k].cron
    /\ ex[k].sub = nodes[k].sub
    /\ ex[k].bsub = nodes[k].bsub
    /\ \A c \in ChildSet(nodes, k) : SameContent(ex, nodes, c)

\* the verdict as the claim states it
Verdict(k) ==
    IF ~existing[k].present THEN "new"
    ELSE IF SameContent(existing, live.nodes, k) THEN "same"
    ELSE IF existing[k].uuid = Uuid(live.nodes, k) THEN "update"
    ELSE "breaking"

\* the jobs of a verdict
Pattern(v, clean) ==
    IF v = "same" THEN <<>>
    ELSE IF v = "update" THEN <<"update">>
    ELSE IF v = "breaking" THEN <<"delete", "create">>
    ELSE IF clean THEN <<"delete", "create">>
    ELSE <<"create">>

\* the breaks fields of k (brk, and bsub, which is empty) are as stored, and
\* some other field (val, cron, or the child in sub) is not
OnlyNonBreaksChanged(k) ==
    /\ existing[k].present
    /\ existing[k].brk = live.nodes[k].brk
    /\ existing[k].bsub = None
    /\ live.nodes[k].bsub = None
    /\ ~SameContent(existing, live.nodes, k)

\* the breaks field of k itself differs from the stored component
BreaksChanged(k) ==
    /\ existing[k].present
    /\ existing[k].brk # live.nodes[k].brk

\* C5: the planner's verdict on a node is new / same / update / breaking by
\* presence of a prior, equal content, equal uuid; a non-breaks change gives
\* one update job, a breaks change gives delete then create (both measured
\* against the stored component of the node).  The second conjunct, which
\* the claim does not state for a new node, is left to identifiers without
\* a '.'.
C5_Verdict ==
    Planned =>
        \A k \in LiveKeys :
            /\ ApplyStatus(live.nodes, existing, k) = Verdict(k)
            /\ k \notin Dotted => Methods(k) = Pattern(Verdict(k), cleanRun)
            /\ OnlyNonBreaksChanged(k) => Methods(k) = <<"update">>
            /\ BreaksChanged(k) => Methods(k) = <<"delete", "create">>

\* C6: a component that carries the error marker of a failed apply is
\* classified new by the next apply of the identical definition, which emits
\* a create job for it although its prior hash equals its live hash.
C6_ErrorIsRetried ==
    (Planned /\ last.kind = "apply" /\ last.outcome = "aborted" /\ last.live = live) =>
        \A k \in LiveKeys :
            (regAtStart[k].error /\ SameContent(existing, live.nodes, k)) =>
                \E i \in 1..Len(plan.jobs[k]) : plan.jobs[k][i].method = "create"

\* the status markers present in the directory of a component
Markers(k) == {m \in {"in_progress", "complete", "error"} : registry[k][m]}

\* C7: at rest, at most one of in_progress, complete and error is present in
\* each component directory.
C7_OneMarkerAtRest ==
    pc = "idle" => \A k \in Keys : Cardinality(Markers(k)) <= 1

\* C8: a create or update job that succeeds on a component carrying an error
\* marker clears it: afterwards error is absent and the status is complete.
C8_SuccessClearsError ==
    (log # <<>> /\ ~log[Len(log)].failed /\ log[Len(log)].errorBefore
     /\ log[Len(log)].job.method # "delete") =>
        /\ ~registry[log[Len(log)].job.comp].error
        /\ Status(registry, log[Len(log)].job.comp) = "complete"

\* an apply that ran to its end with no failed job
AllSucceeded ==
    /\ kind = "apply"
    /\ outcome = "done"
    /\ \A i \in 1..Len(log) : ~log[i].failed

\* the create and update jobs that ran on a component
SaveJobs(k) ==
    {i \in 1..Len(log) : log[i].job.comp = k /\ log[i].job.method \in {"create", "update"}}

LastSaveJob(k) == CHOOSE i \in SaveJobs(k) : \A j \in SaveJobs(k) : j <= i

\* C9 as stated: after an apply whose every job succeeded, each component
\* with a create or update job has a component.json that encodes the
\* user-supplied definition, a complete marker and no in_progress marker.
C9_SavedDefinition ==
    AllSucceeded =>
        \A k \in Keys : SaveJobs(k) # {} =>
            /\ registry[k].json = Encode(live.nodes[k], Uuid(live.nodes, k))
            /\ registry[k].complete
            /\ ~registry[k].in_progress

\* C9 as amended: the component.json encodes the component as its last create
\* or update hook left it, which is the user-supplied definition when that
\* hook assigned no field; complete is present and in_progress is absent.
C9_SavedAsHookLeftIt ==
    AllSucceeded =>
        \A k \in Keys : SaveJobs(k) # {} =>
            /\ registry[k].json =
                   Encode(Hooked(live.nodes[k], log[LastSaveJob(k)].hook),
                          Uuid(live.nodes, k))
            /\ log[LastSaveJob(k)].hook # "mutate" =>
                   registry[k].json = Encode(live.nodes[k], Uuid(live.nodes, k))
            /\ registry[k].complete
            /\ ~registry[k].in_progress

\* a successful apply of a parent and a child whose hook assigned a field
C9_Witness ==
    /\ AllSucceeded
    /\ Len(log) >= 2
    /\ \E i \in 1..Len(log) : log[i].hook = "mutate"
    /\ \E i \in 1..Len(log) : log[i].hook = "ok" /\ log[i].job.method = "update"

\* C10: the jobs after a failed job run if and only if the failed job's
\* raises flag is false: a failure with raises=true is the last job of the
\* run, a failure with raises=false leaves the executor on the next job.
C10_AbortIffRaises ==
    /\ \A i \in 1..Len(log) : log[i].job = Run[i]
    /\ \A i \in 1..Len(log) :
           /\ (log[i].failed /\ log[i].job.raises) =>
                  (i = Len(log) /\ pc = "idle" /\ outcome = "aborted")
           /\ (log[i].failed /\ ~log[i].job.raises /\ i < Len(Run)) =>
                  (Len(log) > i \/ (pc = "exec" /\ pos = i + 1))
    /\ outcome = "aborted" =>
           (log # <<>> /\ log[Len(log)].failed /\ log[Len(log)].job.raises)

\* a run in which a raises=false job failed, the next job ran, and a later
\* raises=true job failed and ended the run
C10_Witness ==
    /\ outcome = "aborted"
    /\ Len(log) < Len(Run)
    /\ \E i \in 1..(Len(log) - 1) : log[i].failed /\ ~log[i].job.raises

\* C11: when a raises=true job on X fails during an apply, after the abort
\* the component.json of X is the one that was on disk before the apply began
\* (absent if there was none), for the root and for a descendant.
C11_AbortRestoresJson ==
    (kind = "apply" /\ outcome = "aborted") =>
        registry[log[Len(log)].job.comp].json = regAtStart[log[Len(log)].job.comp].json

\* C12: when the delete job of a node classified breaking fails, no create
\* job of that node is ever executed: its create hook was not and is not
\* invoked and no create job wrote its component.json.
C12_FailedDeleteGatesCreate ==
    kind = "apply" =>
        \A i \in 1..Len(log) :
            (log[i].failed /\ log[i].job.method = "delete"
             /\ ApplyStatus(live.nodes, existing, log[i].job.comp) = "breaking") =>
                \A j \in 1..Len(log) :
                    ~(log[j].job.comp = log[i].job.comp /\ log[j].job.method = "create")

\* the job sets that one visit of _apply appends for a node
Patterns == {<<"create">>, <<"update">>, <<"delete", "create">>}

\* C13: a component referenced from several parents, or held by one parent in
\* two fields, has exactly one set of jobs in the apply plan (one create, one
\* update, or one delete and create pair), whatever its identifier.
C13_OneJobSet ==
    Planned =>
        \A k \in LiveKeys : Methods(k) = <<>> \/ Methods(k) \in Patterns

\* the position in the executor's order of the job with a given id, 0 if none
PosOf(id) ==
    IF \E i \in 1..Len(Run) : Run[i].id = id
    THEN CHOOSE i \in 1..Len(Run) : Run[i].id = id
    ELSE 0

\* C14: for a node classified breaking the planner emits exactly two jobs: a
\* delete whose dependencies are the job ids of the node's children, then a
\* create whose dependencies contain the delete's id; the executor runs the
\* delete before the create.
C14_BreakingPair ==
    Planned =>
        \A k \in LiveKeys :
            ApplyStatus(live.nodes, existing, k) = "breaking" =>
                /\ Methods(k) = <<"delete", "create">>
                /\ plan.jobs[k][1].deps = ChildJobIds(Children(live.nodes, k), plan.jobs)
                /\ \E n \in 1..Len(plan.jobs[k][2].deps) :
                       plan.jobs[k][2].deps[n] = plan.jobs[k][1].id
                /\ 0 < PosOf(plan.jobs[k][1].id)
                /\ PosOf(plan.jobs[k][1].id) < PosOf(plan.jobs[k][2].id)
                /\ \A i \in 1..Len(log) : log[i].job = Run[i]

\* C15: for a node classified new under clean=True the planner emits a delete
\* with raises=False and then a create, and the create's dependencies contain
\* the delete's id besides the children's job ids.
C15_CleanNewPair ==
    (Planned /\ cleanRun) =>
        \A k \in LiveKeys :
            ApplyStatus(live.nodes, existing, k) = "new" =>
                /\ Methods(k) = <<"delete", "create">>
                /\ ~plan.jobs[k][1].raises
                /\ \E n \in 1..Len(plan.jobs[k][2].deps) :
                       plan.jobs[k][2].deps[n] = plan.jobs[k][1].id
                /\ \A c \in ChildSet(live.nodes, k) : \A m \in 1..Len(plan.jobs[c]) :
                       \E n \in 1..Len(plan.jobs[k][2].deps) :
                           plan.jobs[k][2].deps[n] = plan.jobs[c][m].id

\* the hooks that were invoked on a component in this run, in order
RECURSIVE HooksOf(_, _)
HooksOf(k, n) ==
    IF n = 0 THEN <<>>
    ELSE HooksOf(k, n - 1)
         \o (IF log[n].job.comp = k /\ log[n].hook # "none"
             THEN <<log[n].job.method>> ELSE <<>>)

\* an apply (clean=False) over a registry that holds nothing of the tree
FreshApply ==
    /\ Planned
    /\ ~cleanRun
    /\ \A k \in LiveKeys : ~regAtStart[k].dir

\* C16: applying, without clean, a tree of which the registry holds nothing
\* emits exactly one job per distinct component, each a create, and running
\* the plan to its end invokes create once on every component of the tree and
\* no update or delete.
C16_FreshApplyCreatesOnce ==
    FreshApply =>
        /\ \A k \in LiveKeys : Methods(k) = <<"create">>
        /\ \A k \in Keys \ LiveKeys : Methods(k) = <<>>
        /\ (outcome = "done" /\ \A i \in 1..Len(log) : ~log[i].failed) =>
               \A k \in LiveKeys : HooksOf(k, Len(log)) = <<"create">>

\* the previous command was an apply that ran to its end with no failed job
\* and no hook that assigned a field: its tree is the applied tree
AppliedBefore ==
    /\ Planned
    /\ last.kind = "apply"
    /\ last.outcome = "done"
    /\ ~last.failures
    /\ ~last.mutated

\* the tree in hand is C holding D, and differs from the applied tree in
\* D's breaks field brk only
OnlyChildBreaks(C, D) ==
    /\ AppliedBefore
    /\ live.root = C
    /\ last.live.root = C
    /\ LiveKeys = {C, D}
    /\ C # D
    /\ last.live.nodes[D].brk # live.nodes[D].brk
    /\ live.nodes = [last.live.nodes EXCEPT ![D].brk = live.nodes[D].brk]

\* the plan as (component, method) pairs in the executor's order
RunSteps == [i \in 1..Len(Run) |-> <<Run[i].comp, Run[i].method>>]

Decodes == {i \in 1..Len(log) : log[i].decoded.tried}

\* C18: decode(encode(c)) succeeds and returns a tree equal to c, field by
\* field and uuid by uuid at every node (hence with the same hash and the
\* same encoding), whatever the registry holds.
C18_RoundTrip ==
    \A i \in Decodes :
        /\ log[i].decoded.ok
        /\ log[i].decoded.tree = <<LiveTree(live.nodes, log[i].job.comp)>>

\* the keys of the _builds map of the payload of a component
BuildsKeys(nodes, k) == Reach(nodes, k) \ {k}

\* C19: a reference "?K" at any depth resolves from the payload's _builds;
\* the registry is consulted only for a K that is not in _builds, and
\* decoding fails only for a K that is in neither.
C19_BuildsFirst ==
    \A i \in Decodes :
        /\ log[i].decoded.loaded \cap BuildsKeys(live.nodes, log[i].job.comp) = {}
        /\ ~log[i].decoded.ok =>
               \E K \in RegistryRefs(live.nodes, log[i].job.comp) \cup
                        ChildSet(live.nodes, log[i].job.comp) :
                   K \notin BuildsKeys(live.nodes, log[i].job.comp)

\* C20: an assignment of a different value to the non-breaks field val
\* changes what hash returns and leaves what uuid returns; one to the breaks
\* field brk changes both; read or not read before, constructed or decoded.
C20_AssignmentMovesHashes ==
    (obj.last.op = "assign" /\ obj.last.differs) =>
        /\ HashValue(obj) # obj.last.hashBefore
        /\ obj.last.field = "val" => UuidValue(obj) = obj.last.uuidBefore
        /\ obj.last.field = "brk" => UuidValue(obj) # obj.last.uuidBefore

----------------------------------------------------------------------------
(* Classes that differ in the order of their declarations *)

\* the fields a subclass declares; identifier is declared by Component
Declared == {"brk", "val", "sub", "bsub", "cron"}

\* the declaration order of the fields of Comp, and its breaks
CompOrder == <<"brk", "val", "sub", "bsub", "cron">>
CompBreaks == <<"brk", "bsub">>

\* every order in which the names of S can be written down
Orders(S) ==
    {s \in [1..Cardinality(S) -> S] : \A i, j \in 1..Cardinality(S) : s[i] = s[j] => i = j}

\* the position of a field name in the order of str
Rank(k) ==
    CASE k = "brk" -> 1 [] k = "bsub" -> 2 [] k = "cron" -> 3
      [] k = "identifier" -> 4 [] k = "sub" -> 5 [] k = "val" -> 6

\* sorted(keys), as an insertion sort
RECURSIVE Insert(_, _)
Insert(k, s) ==
    IF s = <<>> THEN <<k>>
    ELSE IF Rank(k) <= Rank(Head(s)) THEN <<k>> \o s
    ELSE <<Head(s)>> \o Insert(k, Tail(s))

RECURSIVE Sorted(_)
Sorted(s) == IF s = <<>> THEN <<>> ELSE Insert(Head(s), Sorted(Tail(s)))

\* the text hash_item digests for the value of field f of
\* Comp('D', brk=b, val=v): an int, a str or None
FieldText(f, b, v) ==
    CASE f = "identifier" -> "D"
      [] f = "brk" -> "<int>" \o ToString(b)
      [] f = "val" -> "<int>" \o ToString(v)
      [] OTHER -> "<NoneType>None"

\* the keys of self.dict(metadata=False): the dataclass fields in the order
\* of their declaration, the inherited identifier first
DictKeys(order) == <<"identifier">> \o order

\* the set of names a tuple lists
Names(s) == {s[i] : i \in 1..Len(s)}

\* the keys of _build_merkle_tree, in the order of the tree
MerkleKeys(order, brks, breaksOnly) ==
    Sorted(SelectSeq(DictKeys(order), LAMBDA k : ~breaksOnly \/ k \in Names(brks)))

\* tree[k] of either merkle tree
TreeItem(k, b, v) == HashItem(FieldText(k, b, v))

\* the uuid property of an object of a class with this declaration
ClassUuid(order, brks, b, v) ==
    LET keys == MerkleKeys(order, brks, TRUE)
        used == SelectSeq(brks, LAMBDA k : k \in Names(keys))
    IN  <<"Comp", "D">> \o [i \in 1..Len(used) |-> TreeItem(used[i], b, v)]

\* the hash property
ClassHash(order, brks, b, v) ==
    LET keys == MerkleKeys(order, brks, FALSE)
        breaking == SelectSeq(brks, LAMBDA k : k \in Names(keys))
        rest == SelectSeq(keys, LAMBDA k : k \notin Names(brks))
    IN  << [i \in 1..Len(breaking) |-> TreeItem(breaking[i], b, v)],
           [i \in 1..Len(rest) |-> TreeItem(rest[i], b, v)] >>

\* class Comp(Component) is written with its fields in this order and its
\* breaks in this order
DefineClass(order, brks) ==
    /\ obj.made = "none"
    /\ obj' = [made |-> "class", order |-> order, breaks |-> brks]
    /\ UNCHANGED engine

\* Comp('D', brk=b, val=v) of the class just written and of Comp as first
\* declared; uuid and hash of both are read
Instantiate(b, v) ==
    /\ obj.made = "class"
    /\ obj' = [made |-> "instances", order |-> obj.order, breaks |-> obj.breaks,
               brk |-> b, val |-> v,
               uuid |-> ClassUuid(obj.order, obj.breaks, b, v),
               hash |-> ClassHash(obj.order, obj.breaks, b, v),
               uuidComp |-> ClassUuid(CompOrder, CompBreaks, b, v),
               hashComp |-> ClassHash(CompOrder, CompBreaks, b, v)]
    /\ UNCHANGED engine

NextClass ==
    \/ \E order \in Orders(Declared), brks \in Orders(Names(CompBreaks)) :
           DefineClass(order, brks)
    \/ \E b, v \in FieldValues : Instantiate(b, v)

SpecClass == Init /\ [][NextClass]_vars

\* C21: an object of a class with the type name, the breaks set and the
\* fields of Comp, holding the identifier and the field values of an object
\* of Comp, has the uuid and the hash of that object, whatever the order of
\* the declarations of its class.
C21_SameIdentity ==
    obj.made = "instances" =>
        /\ obj.uuid = obj.uuidComp
        /\ obj.hash = obj.hashComp

\* the classes that list their breaks in the order of Comp do agree with
\* Comp, in whatever order their fields are declared
C21_SameIdentityBreaksInOrder ==
    (obj.made = "instances" /\ obj.breaks = CompBreaks) =>
        /\ obj.uuid = obj.uuidComp
        /\ obj.hash = obj.hashComp

----------------------------------------------------------------------------
(* Scheduler properties *)

\* the scheduler entries tagged with a component
Entries(tab, k) == SelectSeq(tab, LAMBDA e : e.tag = k)

\* an apply that reached schedule(component)
Scheduled == kind = "apply" /\ outcome = "done" /\ live.nodes[live.root].cron # None

\* C22: after an apply that scheduled its root, the scheduler holds exactly
\* one entry tagged with the root, and it carries the cron expression of this
\* apply, whatever earlier applies scheduled.
C22_ScheduleIsUpsert ==
    Scheduled =>
        Entries(crontab, live.root) =
            <<[tag |-> live.root, cron |-> live.nodes[live.root].cron]>>

\* the scheduler entries tagged with any other component
Others(tab, k) == SelectSeq(tab, LAMBDA e : e.tag # k)

\* an apply whose plan was confirmed and executed to its end
Applied == kind = "apply" /\ outcome = "done"

\* the root that was persisted when the apply started had a cron expression
PriorHadCron == existing[live.root].present /\ existing[live.root].cron # None

----------------------------------------------------------------------------
(* The scheduler adapter on its own *)

\* the longest crontab.txt written
MaxEntries == 3

\* the components and cron expressions handed to the adapter
Tags == {"D", "P"}
Crons == {"c1", "c2"}

\* executor.schedule(component); last keeps the call
ScheduleCall(k, cron) ==
    /\ Len(crontab) < MaxEntries
    /\ crontab' = Schedule(crontab, k, cron)
    /\ cronAtStart' = crontab
    /\ last' = [kind |-> "schedule", tag |-> k]
    /\ UNCHANGED <<registry, pc, kind, live, cleanRun, existing, regAtStart,
                   plan, pos, log, outcome, runs, obj>>

\* executor.cancel_schedule(component)
CancelScheduleCall(k) ==
    /\ crontab' = CancelSchedule(crontab, k)
    /\ cronAtStart' = crontab
    /\ last' = [kind |-> "cancel_schedule", tag |-> k]
    /\ UNCHANGED <<registry, pc, kind, live, cleanRun, existing, regAtStart,
                   plan, pos, log, outcome, runs, obj>>

NextScheduler ==
    \/ \E k \in Tags, cron \in Crons : ScheduleCall(k, cron)
    \/ \E k \in Tags : CancelScheduleCall(k)

SpecScheduler == Init /\ [][NextScheduler]_vars

\* C25: after cancel_schedule(component) no entry tagged with the component
\* is left, the entries with any other tag are the ones that were there, in
\* their order, and a second cancel_schedule(component) changes nothing.
C25_CancelRemovesTag ==
    last.kind = "cancel_schedule" =>
        /\ Entries(crontab, last.tag) = <<>>
        /\ Others(crontab, last.tag) = Others(cronAtStart, last.tag)
        /\ CancelSchedule(crontab, last.tag) = crontab

\* a cancel removed two entries of its tag from between entries of another
C25_Witness ==
    /\ last.kind = "cancel_schedule"
    /\ Len(Entries(cronAtStart, last.tag)) = 2
    /\ Len(crontab) = 1
    /\ cronAtStart[2].tag # last.tag

\* C26: an apply or a destroy whose plan was shown and declined has executed
\* no job and invoked no hook, has left every component.json, every status
\* marker and every directory of the registry as it was, and has neither
\* scheduled nor cancelled anything; nothing runs until the next command.
C26_DeclinedChangesNothing ==
    outcome = "declined" =>
        /\ kind \in {"apply", "destroy"}
        /\ Run # <<>>
        /\ log = <<>>
        /\ pc = "idle"
        /\ registry = regAtStart
        /\ crontab = cronAtStart

\* a declined destroy of a persisted, scheduled root
C26_Witness ==
    /\ outcome = "declined"
    /\ kind = "destroy"
    /\ live.nodes[live.root].cron # None
    /\ Entries(crontab, live.root) # <<>>
    /\ registry[live.root].json.present
    /\ registry[live.root].complete

\* a declined apply that would have written a new definition
C26_WitnessApply ==
    /\ outcome = "declined"
    /\ kind = "apply"
    /\ registry[live.root].json.present
    /\ registry[live.root].json # Encode(live.nodes[live.root], Uuid(live.nodes, live.root))

----------------------------------------------------------------------------
(* Job.execute: what a job leaves on disk *)

\* the registry still is as the last executed job left it
JustExecuted == log # <<>> /\ outcome \in {"running", "aborted"}

\* the last executed job, and the directory of its component
LastEntry == log[Len(log)]
LastDir == registry[LastEntry.job.comp]

\* C28 as stated: when a job has returned or raised, complete or error is
\* present for its component, and in_progress is absent if the job succeeded.
C28_MarkerOnEveryExit ==
    JustExecuted =>
        /\ LastDir.complete \/ LastDir.error
        /\ ~LastEntry.failed => ~LastDir.in_progress

\* C28: when a job has returned or raised, complete or error is present for
\* its component, unless the job is a delete that succeeded and removed the
\* directory of the component; in_progress is absent if the job succeeded.
C28_MarkerUnlessRemoved ==
    JustExecuted =>
        /\ \/ LastDir.complete \/ LastDir.error
           \/ LastEntry.job.method = "delete" /\ ~LastEntry.failed /\ ~LastDir.dir
        /\ ~LastEntry.failed => ~LastDir.in_progress

\* a delete job succeeded on a persisted component and left no directory
C28_Witness ==
    /\ JustExecuted
    /\ LastEntry.job.method = "delete"
    /\ ~LastEntry.failed
    /\ regAtStart[LastEntry.job.comp].json.present
    /\ LastDir = NoDir

\* a job failed before its hook was reached and left the error marker
C28_WitnessDecodeFailure ==
    /\ JustExecuted
    /\ LastEntry.failed
    /\ LastEntry.hook = "none"
    /\ LastDir.error

\* C29: when a delete job has succeeded, the directory of its component is
\* gone, whether component.json was there when the job started or not.
C29_DeleteRemovesDirectory ==
    (JustExecuted /\ LastEntry.job.method = "delete" /\ ~LastEntry.failed) =>
        ~LastDir.dir

----------------------------------------------------------------------------
(* Planner: the dependency list of a node *)

\* the ids, in order, of the jobs of a list that were emitted before job id n
RECURSIVE IdsBefore(_, _)
IdsBefore(js, n) ==
    IF js = <<>> THEN <<>>
    ELSE (IF Head(js).id < n THEN <<Head(js).id>> ELSE <<>>) \o IdsBefore(Tail(js), n)

\* for each child in turn, the ids of all its jobs emitted before job id n
RECURSIVE AllJobsOfChildren(_, _)
AllJobsOfChildren(kids, n) ==
    IF kids = <<>> THEN <<>>
    ELSE IdsBefore(plan.jobs[Head(kids)], n) \o AllJobsOfChildren(Tail(kids), n)

\* the children of a node, each once, in the order of their first field
DistinctChildren(k) ==
    LET kids == Children(live.nodes, k)
    IN  IF Len(kids) = 2 /\ kids[1] = kids[2] THEN <<kids[1]>> ELSE kids

\* for each child that has jobs, the id of the last of them
RECURSIVE LastJobOfChildren(_)
LastJobOfChildren(kids) ==
    IF kids = <<>> THEN <<>>
    ELSE (IF plan.jobs[Head(kids)] = <<>> THEN <<>>
          ELSE <<plan.jobs[Head(kids)][Len(plan.jobs[Head(kids)])].id>>)
         \o LastJobOfChildren(Tail(kids))

\* C30 as stated: the first job of a node depends on the last job of each of
\* its structural children that has jobs, one id per child.
C30_LastJobOfEachChild ==
    Planned =>
        \A k \in Keys :
            plan.jobs[k] # <<>> =>
                plan.jobs[k][1].deps = LastJobOfChildren(DistinctChildren(k))

\* C30: the first job of a node depends on every job emitted so far for each
\* of its structural children, listed child by child in the order of the
\* fields that hold them, a child once for each field; the jobs of a shared
\* child that was processed under another parent are among them.
C30_AllJobsOfEachChild ==
    Planned =>
        \A k \in Keys :
            plan.jobs[k] # <<>> =>
                plan.jobs[k][1].deps =
                    AllJobsOfChildren(Children(live.nodes, k), plan.jobs[k][1].id)

\* a plan in which a parent depends on both jobs of a child, and one parent
\* depends on the job of a child that was processed under another parent
C30_Witness ==
    /\ Planned
    /\ \E k, c \in Keys :
           /\ c \in ChildSet(live.nodes, k)
           /\ Len(plan.jobs[c]) = 2
           /\ plan.jobs[k] # <<>>
           /\ plan.jobs[k][1].deps = <<plan.jobs[c][1].id, plan.jobs[c][2].id>>

\* two parents depend on the one job of the child they share
C30_WitnessShared ==
    /\ Planned
    /\ \E k, q, c \in Keys :
           /\ k # q
           /\ c \in ChildSet(live.nodes, k) \cap ChildSet(live.nodes, q)
           /\ Len(plan.jobs[c]) = 1
           /\ plan.jobs[k] # <<>> /\ plan.jobs[q] # <<>>
           /\ plan.jobs[k][1].deps = <<plan.jobs[c][1].id>>
           /\ plan.jobs[q][1].deps = <<plan.jobs[c][1].id>>

----------------------------------------------------------------------------
(* A tree of component objects in memory: caches and back-links *)

\* the objects of the tree: R holds P, P holds D
TreeKeys == {"R", "P", "D"}

\* the fields that hold a child, in the order of their declaration
Slots == <<"sub", "bsub">>

\* R holds P in the field g; P holds D in sub, in bsub, or in both
TreeShape(g, s, b) ==
    [Empty EXCEPT !["R"] = Node(0, 0, IF g = "sub" THEN "P" ELSE None,
                                IF g = "bsub" THEN "P" ELSE None, None),
                  !["P"] = Node(0, 0, IF s THEN "D" ELSE None,
                                IF b THEN "D" ELSE None, None),
                  !["D"] = Leaf(0, 0, None)]

TreeShapes ==
    {TreeShape(g, s, b) : g \in {"sub", "bsub"}, s \in BOOLEAN, b \in BOOLEAN}
        \ {TreeShape(g, FALSE, FALSE) : g \in {"sub", "bsub"}}

\* __post_init__: _merkle_tree, _merkle_tree_breaks and _hash are None
\* (<<>>), _parents is empty
NoCache == [mt |-> <<>>, mtb |-> <<>>, memo |-> <<>>, parents |-> <<>>]

RECURSIVE WithBreaks(_, _)
\* an object's uuid, once its merkle_tree_breaks is there
UuidRead(t, k) == <<k, t.c[k].mtb[1].brk, t.c[k].mtb[1].bsub>>

\* the merkle_tree_breaks property of k: built on first use from the breaks
\* fields, a component in bsub by its uuid
WithBreaks(t, k) ==
    IF t.c[k].mtb # <<>> THEN t
    ELSE LET b == t.nodes[k].bsub
             t1 == IF b = None THEN t ELSE WithBreaks(t, b)
         IN  [t1 EXCEPT !.c[k].mtb =
                  <<[brk |-> HashItem(t.nodes[k].brk),
                     bsub |-> IF b = None THEN HashItem(None) ELSE UuidRead(t1, b)]>>]

\* the merkle_tree property and the hash property of k: the tree is built on
\* first use, a component by its hash; the hash is kept in _hash
RECURSIVE WithTree(_, _), WithHash(_, _)
WithTree(t, k) ==
    IF t.c[k].mt # <<>> THEN t
    ELSE LET b == t.nodes[k].bsub
             s == t.nodes[k].sub
             t1 == IF b = None THEN t ELSE WithHash(t, b)
             t2 == IF s = None THEN t1 ELSE WithHash(t1, s)
         IN  [t2 EXCEPT !.c[k].mt =
                  <<[brk |-> HashItem(t.nodes[k].brk),
                     val |-> HashItem(t.nodes[k].val),
                     bsub |-> IF b = None THEN HashItem(None) ELSE t2.c[b].memo[1],
                     sub |-> IF s = None THEN HashItem(None) ELSE t2.c[s].memo[1]]>>]

WithHash(t, k) ==
    IF t.c[k].memo # <<>> THEN t
    ELSE LET t1 == WithTree(t, k)
             m == t1.c[k].mt[1]
         IN  [t1 EXCEPT !.c[k].memo =
                  << << <<m.brk, m.bsub>>,
                        <<HashItem(None), HashItem(k), m.sub, m.val>> >> >>]

\* the uuids of the parents a child has recorded
RECURSIVE ParentUuids(_, _)
ParentUuids(t, ps) ==
    IF ps = <<>> THEN {}
    ELSE {UuidRead(WithBreaks(t, Head(ps)[1]), Head(ps)[1])} \cup ParentUuids(t, Tail(ps))

\* _handle_parent_children of k: for each field that holds a child, the
\* back-link (k, field) is appended unless a parent with k's uuid is recorded
RECURSIVE HandleParentChildren(_, _, _)
HandleParentChildren(t, k, slots) ==
    IF slots = <<>> THEN t
    ELSE LET position == Head(slots)
             child == t.nodes[k][position]
         IN  IF child = None THEN HandleParentChildren(t, k, Tail(slots))
             ELSE LET t1 == WithBreaks(t, k)
                      t2 == IF UuidRead(t1, k) \in ParentUuids(t1, t1.c[child].parents)
                            THEN t1
                            ELSE [t1 EXCEPT !.c[child].parents = Append(@, <<k, position>>)]
                  IN  HandleParentChildren(t2, k, Tail(slots))

\* Comp('D'), then Comp('P', ...D...), then Comp('R', ...P...)
Constructed(nodes) ==
    LET t0 == [nodes |-> nodes, c |-> [k \in TreeKeys |-> NoCache]]
        t1 == HandleParentChildren(t0, "D", Slots)
        t2 == HandleParentChildren(t1, "P", Slots)
    IN  HandleParentChildren(t2, "R", Slots)

\* parent._do_hash_item(position, child) for each recorded back-link
RECURSIVE NotifyParents(_, _, _)
NotifyParents(t, k, ps) ==
    IF ps = <<>> THEN t
    ELSE LET p == Head(ps)[1]
             position == Head(ps)[2]
             t1 == WithTree(WithHash(t, k), p)
             t2 == [t1 EXCEPT !.c[p].mt = <<[@[1] EXCEPT ![position] = t1.c[k].memo[1]]>>]
             t3 == IF position = "bsub"
                   THEN LET t4 == WithBreaks(WithBreaks(t2, k), p)
                        IN  [t4 EXCEPT !.c[p].mtb =
                                 <<[@[1] EXCEPT !.bsub = UuidRead(t4, k)]>>]
                   ELSE t2
         IN  NotifyParents(t3, k, Tail(ps))

\* Component.__setattr__ of k on the field brk or val
SetAttr(t, k, field, value) ==
    IF t.nodes[k][field] = value THEN t
    ELSE LET t2 == WithBreaks(WithTree(t, k), k)
             t3 == [t2 EXCEPT !.nodes[k][field] = value,
                              !.c[k].mt = <<[@[1] EXCEPT ![field] = HashItem(value)]>>,
                              !.c[k].mtb = IF field = "brk"
                                           THEN <<[@[1] EXCEPT !.brk = HashItem(value)]>>
                                           ELSE @]
         IN  IF UuidRead(t3, k) = UuidRead(t2, k) THEN t3
             ELSE NotifyParents(t3, k, t3.c[k].parents)

\* the tree in hand
Tree == [nodes |-> obj.nodes, c |-> obj.c]

\* the objects of the tree are constructed, leaves first
TreeConstruct(nodes) ==
    /\ obj.made = "none"
    /\ LET t == Constructed(nodes)
       IN  obj' = [made |-> "tree", nodes |-> t.nodes, c |-> t.c]
    /\ UNCHANGED engine

\* k.uuid
TreeReadUuid(k) ==
    /\ obj.made = "tree"
    /\ LET t == WithBreaks(Tree, k)
       IN  obj' = [obj EXCEPT !.c = t.c]
    /\ UNCHANGED engine

\* k.hash
TreeReadHash(k) ==
    /\ obj.made = "tree"
    /\ LET t == WithHash(Tree, k)
       IN  obj' = [obj EXCEPT !.c = t.c]
    /\ UNCHANGED engine

\* k.<field> = value
TreeAssign(k, field, value) ==
    /\ obj.made = "tree"
    /\ LET t == SetAttr(Tree, k, field, value)
       IN  obj' = [obj EXCEPT !.nodes = t.nodes, !.c = t.c]
    /\ UNCHANGED engine

NextTree ==
    \/ \E nodes \in TreeShapes : TreeConstruct(nodes)
    \/ \E k \in TreeKeys : TreeReadUuid(k)
    \/ \E k \in TreeKeys : TreeReadHash(k)
    \/ \E k \in TreeKeys, field \in {"brk", "val"}, value \in {0, 1} :
           TreeAssign(k, field, value)

SpecTree == Init /\ [][NextTree]_vars

\* C31: whatever was assigned and read before, every object of the tree
\* returns the uuid and the hash of a freshly constructed tree with the same
\* field values.
C31_TreeFollowsAssignments ==
    obj.made = "tree" =>
        \A k \in TreeKeys :
            /\ UuidRead(WithBreaks(Tree, k), k) = Uuid(obj.nodes, k)
            /\ WithHash(Tree, k).c[k].memo[1] = Hash(obj.nodes, k)

\* C31, the uuid half alone, which no memoized hash can disturb
C31_UuidFollowsAssignments ==
    obj.made = "tree" =>
        \A k \in TreeKeys : UuidRead(WithBreaks(Tree, k), k) = Uuid(obj.nodes, k)

\* C32: a child has recorded one back-link (parent, field) for every field of
\* a parent that holds it, so a child held in sub and in bsub of one parent has
\* both recorded.
C32_BackLinkPerSlot ==
    obj.made = "tree" =>
        \A p \in TreeKeys, i \in 1..Len(Slots) :
            LET child == obj.nodes[p][Slots[i]]
            IN  child # None =>
                    \E j \in 1..Len(obj.c[child].parents) :
                        obj.c[child].parents[j] = <<p, Slots[i]>>

\* C32, its consequence: after a breaking assignment to a child that is held
\* in two fields, the parent's uuid is that of a fresh tree
C32_BothSlotsRehashed ==
    (obj.made = "tree" /\ obj.nodes["P"].sub = "D" /\ obj.nodes["P"].bsub = "D") =>
        UuidRead(WithBreaks(Tree, "P"), "P") = Uuid(obj.nodes, "P")

----------------------------------------------------------------------------
(* The destroy plan *)

\* the parents of k in the graph of the command
ParentsOf(nodes, root, k) == {p \in Reach(nodes, root) : k \in ChildSet(nodes, p)}

\* the delete job id of the parent under which k was first visited: of the
\* parents planned before k, the one planned last
FirstVisitParentId(k) ==
    LET own == plan.jobs[k][1].id
        before == {plan.jobs[p][1].id : p \in {q \in ParentsOf(live.nodes, live.root, k) :
                                                 plan.jobs[q] # <<>> /\ plan.jobs[q][1].id < own}}
    IN  IF before = {} THEN <<>>
        ELSE <<CHOOSE m \in before : \A n \in before : n <= m>>

\* C33: in a destroy plan every component of the graph has exactly one job, a
\* delete with raises=false, which depends on nothing for the root and
\* otherwise on exactly the delete job of the parent under which the
\* component was first visited.
C33_OneDeletePerComponent ==
    (kind = "destroy" /\ outcome \in {"running", "declined", "aborted", "done"}) =>
        /\ \A k \in Keys \ Reach(live.nodes, live.root) : plan.jobs[k] = <<>>
        /\ \A k \in Reach(live.nodes, live.root) :
              /\ Len(plan.jobs[k]) = 1
              /\ plan.jobs[k][1].method = "delete"
              /\ plan.jobs[k][1].raises = FALSE
              /\ plan.jobs[k][1].deps =
                     IF k = live.root THEN <<>> ELSE FirstVisitParentId(k)

\* C33 for graphs without a dotted identifier
C33_OneDeletePerCleanComponent ==
    (Reach(live.nodes, live.root) \cap Dotted = {}) => C33_OneDeletePerComponent

----------------------------------------------------------------------------
(* Job.execute, statement by statement *)

JobMethods == {"create", "update", "delete"}

\* the directory of the job's component: the .status directory, the three
\* markers, and component.json (absent, the prior version, or the job's data)
DisksAtStart ==
    {d \in [status : BOOLEAN, in_progress : BOOLEAN, complete : BOOLEAN,
            error : BOOLEAN, json : {"none", "prior"}] :
        (d.in_progress \/ d.complete \/ d.error) => d.status}

\* job.execute() is entered: previous_version = None
JobStart(method, raises, disk, loadOK, decodeOK) ==
    /\ obj.made = "none"
    /\ obj' = [made |-> "job", method |-> method, raises |-> raises, disk |-> disk,
               loadOK |-> loadOK, decodeOK |-> decodeOK, at |-> "makedirs",
               previous_version |-> FALSE, events |-> <<>>]
    /\ UNCHANGED engine

\* what the statement at obj.at does to the job
Step(at, disk, events) ==
    /\ obj.made = "job"
    /\ obj' = [obj EXCEPT !.at = at, !.disk = disk, !.events = events]
    /\ UNCHANGED engine

\* a job that creates .status and writes no in_progress marker
MarkInProgressNoMarker ==
    /\ obj.made = "job" /\ obj.at = "makedirs"
    /\ Step("load", [obj.disk EXCEPT !.status = TRUE], obj.events)

\* os.makedirs(.status, exist_ok=True); open(.status/in_progress, "w")
MarkInProgress ==
    /\ obj.made = "job" /\ obj.at = "makedirs"
    /\ Step("load", [obj.disk EXCEPT !.status = TRUE, !.in_progress = TRUE],
            Append(obj.events, "in_progress"))

\* if os.path.exists(component.json): previous_version = Component.load(...)
LoadPrevious ==
    /\ obj.made = "job" /\ obj.at = "load"
    /\ obj' = IF obj.disk.json = "none" THEN [obj EXCEPT !.at = "decode"]
              ELSE [obj EXCEPT !.at = IF obj.loadOK THEN "decode" ELSE "except",
                               !.previous_version = obj.loadOK,
                               !.events = Append(@, "load")]
    /\ UNCHANGED engine

\* c = Component.decode(self.data)
DecodeData ==
    /\ obj.made = "job" /\ obj.at = "decode"
    /\ Step(IF obj.decodeOK THEN "hook" ELSE "except", obj.disk,
            Append(obj.events, "decode"))

\* getattr(c, self.method)() is called
HookEnter ==
    /\ obj.made = "job" /\ obj.at = "hook"
    /\ Step("in_hook", obj.disk, Append(obj.events, "hook"))

\* the hook returns or raises
HookExit(result) ==
    /\ obj.made = "job" /\ obj.at = "in_hook"
    /\ Step(IF result = "ok" THEN "complete" ELSE "except", obj.disk,
            Append(obj.events, IF result = "ok" THEN "hook_returned" ELSE "hook_raised"))

\* open(.status/complete, "w")
WriteComplete ==
    /\ obj.made = "job" /\ obj.at = "complete"
    /\ Step("remove", [obj.disk EXCEPT !.complete = TRUE], Append(obj.events, "complete"))

\* os.remove(.status/in_progress)
RemoveInProgress ==
    /\ obj.made = "job" /\ obj.at = "remove"
    /\ Step("persist", [obj.disk EXCEPT !.in_progress = FALSE],
            Append(obj.events, "remove"))

\* c.save() for create and update; previous_version.rm() for delete
Persist ==
    /\ obj.made = "job" /\ obj.at = "persist"
    /\ IF obj.method \in {"create", "update"}
       THEN Step("returned", [obj.disk EXCEPT !.json = "data"], Append(obj.events, "save"))
       ELSE IF obj.previous_version
       THEN Step("returned", [status |-> FALSE, in_progress |-> FALSE, complete |-> FALSE,
                              error |-> FALSE, json |-> "none"],
                 Append(obj.events, "rm"))
       ELSE Step("returned", obj.disk, obj.events)

\* except Exception: open(.status/error, "w").write(str(e))
WriteError ==
    /\ obj.made = "job" /\ obj.at = "except"
    /\ Step(IF obj.raises THEN "restore" ELSE "returned",
            [obj.disk EXCEPT !.error = TRUE], Append(obj.events, "error"))

\* if self.raises: if previous_version: previous_version.save(); raise e
Restore ==
    /\ obj.made = "job" /\ obj.at = "restore"
    /\ IF obj.previous_version
       THEN Step("raised", [obj.disk EXCEPT !.json = "prior"], Append(obj.events, "restore"))
       ELSE Step("raised", obj.disk, obj.events)

NextJob ==
    \/ \E method \in JobMethods, raises \in BOOLEAN, disk \in DisksAtStart,
          loadOK \in BOOLEAN, decodeOK \in BOOLEAN :
           JobStart(method, raises, disk, loadOK, decodeOK)
    \/ MarkInProgress
    \/ LoadPrevious
    \/ DecodeData
    \/ HookEnter
    \/ \E result \in {"ok", "raise"} : HookExit(result)
    \/ WriteComplete
    \/ RemoveInProgress
    \/ Persist
    \/ WriteError
    \/ Restore

SpecJob == Init /\ [][NextJob]_vars

\* every event b of the job is preceded by an event a
Before(a, b) ==
    \A i \in 1..Len(obj.events) :
        obj.events[i] = b => \E j \in 1..(i - 1) : obj.events[j] = a

\* the ordering of the steps that the marker and the hook are part of
MarkerAndHookOrdered ==
    /\ Before("in_progress", "load")
    /\ Before("in_progress", "hook")
    /\ Before("hook_returned", "complete")
    /\ obj.at = "in_hook" => obj.disk.in_progress

\* C34: in_progress is written before the prior version is loaded and before
\* the hook is invoked, complete only after the hook returned, and a create
\* or update job writes component.json only after complete was written; no
\* hook is running while in_progress is absent.
C34_StepsOrdered ==
    obj.made = "job" =>
        /\ MarkerAndHookOrdered
        /\ obj.method \in {"create", "update"} =>
               /\ Before("complete", "save")
               /\ Before("complete", "restore")

\* C34 as the code has it: a create or update job writes its own data to
\* component.json only after complete was written; a job that failed with
\* raises=true writes the prior version back, after the error marker and
\* without complete.
C34_StepsOrderedSaveAfterComplete ==
    obj.made = "job" =>
        /\ MarkerAndHookOrdered
        /\ obj.method \in {"create", "update"} => Before("complete", "save")
        /\ Before("error", "restore")
        /\ \A i \in 1..Len(obj.events) : obj.events[i] = "restore" => obj.raises

\* an update job with a prior version ran through and saved its data
C34_Witness ==
    /\ obj.made = "job"
    /\ obj.method = "update"
    /\ obj.previous_version
    /\ obj.at = "returned"
    /\ obj.disk.json = "data"
    /\ obj.events = <<"in_progress", "load", "decode", "hook", "hook_returned",
                      "complete", "remove", "save">>

\* an update job whose hook raised wrote the prior version back
C34_WitnessRestore ==
    /\ obj.made = "job"
    /\ obj.method = "update"
    /\ obj.at = "raised"
    /\ obj.events = <<"in_progress", "load", "decode", "hook", "hook_raised",
                      "error", "restore">>

----------------------------------------------------------------------------
(* Apply after an aborted apply *)

\* the command before this one was an apply of the same definition that a
\* failing job aborted
AfterAbortedApply ==
    /\ kind = "apply"
    /\ last.kind = "apply"
    /\ last.outcome = "aborted"
    /\ last.live = live

\* C35: an apply that follows an aborted apply of the same definition loads
\* the prior state (none, or a root that decodes) and plans; it does not fail
\* with NotFound on a child that the stored root references and the registry
\* does not hold.
C35_ApplyAfterAbortLoads ==
    AfterAbortedApply => outcome # "crashed"

----------------------------------------------------------------------------
(* Destroy of an applied graph *)

\* the command before this one applied the same definition completely, and
\* this destroy ran to its end with no hook raising
DestroyedAfterApply ==
    /\ kind = "destroy"
    /\ outcome = "done"
    /\ last.kind = "apply"
    /\ last.outcome = "done"
    /\ ~last.failures
    /\ ~last.mutated
    /\ last.live = live
    /\ \A i \in 1..Len(log) : log[i].hook # "raise"

\* C36: after such a destroy no component of the graph has a component.json
\* in the registry and none is left with an error marker.
C36_DestroyLeavesNothing ==
    DestroyedAfterApply =>
        \A k \in Reach(live.nodes, live.root) :
            /\ ~registry[k].json.present
            /\ ~registry[k].error

\* a component of the graph is held by two parents or in two fields
SharedChild ==
    \E k \in Reach(live.nodes, live.root) :
        \/ Cardinality(ParentsOf(live.nodes, live.root, k)) > 1
        \/ \E p \in Reach(live.nodes, live.root) :
               live.nodes[p].sub = k /\ live.nodes[p].bsub = k

\* C36 for graphs in which no child is held by two parents or in two fields
C36_DestroyLeavesNothingUnshared ==
    ~SharedChild => C36_DestroyLeavesNothing

----------------------------------------------------------------------------
(* Reapply *)

C37_WitnessErrorMarker ==
    /\ kind = "reapply"
    /\ outcome = "noop"
    /\ registry[live.root].error

----------------------------------------------------------------------------
(* apply and destroy called with execute=False *)

\* apply(component, force, clean, execute=False): load the prior state, plan,
\* confirm; component.save() and plan.apply() are skipped, the schedule block
\* is not
ApplyDryRun(d, clean, approve) ==
    /\ Begin("apply_dry", d, clean)
    /\ UNCHANGED <<registry, pc>>
    /\ IF registry[d.root].json.present /\ ~LoadOK(registry, d.root)
       THEN /\ existing' = NoExisting
            /\ plan' = NoPlan
            /\ outcome' = "crashed"
            /\ UNCHANGED crontab
       ELSE LET ex == ExistingOf(registry, d.root)
                p == ApplyNode(d.nodes, ex, clean, d.root, EmptyPlan)
            IN  /\ existing' = ex
                /\ plan' = [order |-> p.order, jobs |-> p.jobs]
                /\ IF p.order = <<>>
                   THEN outcome' = "noop" /\ UNCHANGED crontab
                   ELSE IF ~approve
                   THEN outcome' = "declined" /\ UNCHANGED crontab
                   ELSE /\ outcome' = "done"
                        /\ crontab' =
                             IF d.nodes[d.root].cron # None
                             THEN Schedule(crontab, d.root, d.nodes[d.root].cron)
                             ELSE IF ex[d.root].present /\ ex[d.root].cron # None
                             THEN CancelSchedule(crontab, d.root)
                             ELSE crontab

\* destroy(component, force, execute=False): plan, confirm, cancel the
\* schedule; plan.apply() and the rmtree are skipped
DestroyDryRun(d, approve) ==
    /\ Begin("destroy_dry", d, FALSE)
    /\ existing' = NoExisting
    /\ UNCHANGED <<registry, pc>>
    /\ LET p == DestroyNode(d.nodes, d.root, 0, EmptyPlan)
       IN  plan' = [order |-> p.order, jobs |-> p.jobs]
    /\ IF ~approve
       THEN outcome' = "declined" /\ UNCHANGED crontab
       ELSE /\ outcome' = "done"
            /\ crontab' = IF d.nodes[d.root].cron # None
                          THEN CancelSchedule(crontab, d.root) ELSE crontab

\* the commands, and the calls with execute=False
NextDryRun ==
    \/ Next
    \/ \E d \in Definitions, approve \in BOOLEAN :
           \E clean \in CleanFlags(d) : ApplyDryRun(d, clean, approve)
    \/ \E d \in Definitions, approve \in BOOLEAN : DestroyDryRun(d, approve)

SpecDryRun == Init /\ [][NextDryRun]_vars

\* C38: a call with execute=False invokes no hook, writes and removes no
\* registry file and leaves the scheduler as it was.
C38_DryRunChangesNothing ==
    kind \in {"apply_dry", "destroy_dry"} =>
        /\ log = <<>>
        /\ registry = regAtStart
        /\ crontab = cronAtStart

\* C38 without the scheduler: no hook, no registry file written or removed
C38_DryRunKeepsRegistry ==
    kind \in {"apply_dry", "destroy_dry"} =>
        /\ log = <<>>
        /\ pc = "idle"
        /\ registry = regAtStart

----------------------------------------------------------------------------
(* The plan of an apply and the tree it was made from *)

\* the structural descendants of k in the live tree
Descendants(k) == Reach(live.nodes, k) \ {k}

\* C39: when the planner's verdict on a node is 'same', no job is emitted for
\* any descendant of the node; when a descendant has a job, the node has one.
C39_SameMeansSubtreeSame ==
    Planned =>
        \A k \in LiveKeys :
            /\ ApplyStatus(live.nodes, existing, k) = "same" =>
                   \A c \in Descendants(k) : plan.jobs[c] = <<>>
            /\ (\E c \in Descendants(k) : plan.jobs[c] # <<>>) => plan.jobs[k] # <<>>

\* an apply with a non-empty plan in which a node with descendants is 'same'
C39_Witness ==
    /\ Planned
    /\ plan.order # <<>>
    /\ \E k \in LiveKeys :
           /\ Descendants(k) # {}
           /\ ApplyStatus(live.nodes, existing, k) = "same"

\* an apply over a stored tree in which a descendant and its ancestor get jobs
C39_WitnessChangedBelow ==
    /\ Planned
    /\ \E k \in LiveKeys :
           /\ existing[k].present
           /\ plan.jobs[k] # <<>>
           /\ \E c \in Descendants(k) : existing[c].present /\ plan.jobs[c] # <<>>

----------------------------------------------------------------------------
(* Components of the prior tree that the live tree no longer holds *)

\* the components stored under the prior root that the live tree does not hold
Orphans == {k \in Keys : existing[k].present} \ LiveKeys

\* C40: an apply emits jobs for components of the live tree only; a component
\* of the prior tree that the live tree no longer holds gets no job, no hook
\* of it is invoked, and its component.json and status markers stay as they
\* were.
C40_OrphansUntouched ==
    kind = "apply" =>
        /\ \A k \in Keys \ LiveKeys : plan.jobs[k] = <<>>
        /\ \A i \in 1..Len(log) : log[i].job.comp \in LiveKeys
        /\ \A k \in Orphans : registry[k] = regAtStart[k]

\* an apply that ran to its end over a prior tree with a child that the live
\* tree replaced or dropped
C40_Witness ==
    /\ kind = "apply"
    /\ outcome = "done"
    /\ log # <<>>
    /\ Orphans # {}

====
